---- MODULE Spec2Model ----
(***************************************************************************)
(* GLOVE, GLES/source/resources/framebuffer.cpp: the Framebuffer resource  *)
(* (attachments, the shared depth-stencil surface and its reference count, *)
(* the completeness check, the render-pass life cycle and the masked       *)
(* stencil clear) as a state machine.                                      *)
(*                                                                         *)
(* The specifications share the variables:                                 *)
(*   Spec         the life cycle of one Framebuffer over the textures      *)
(*   SpecShare    two off-screen Framebuffers sharing a depth attachment   *)
(*   SpecSwap     the window surface and the index of the next swap image  *)
(*   SpecWindow   the window surface and its own combined surface          *)
(*   SpecFlags    CreateRenderPass under every flag combination            *)
(*   SpecCache    the cached attachment objects                            *)
(*   SpecStatus   CheckStatus over drawn attachment configurations         *)
(*   SpecStencil  UpdateClearDepthStencilTexture, pixel by pixel           *)
(***************************************************************************)
EXTENDS Integers, Sequences, FiniteSets, TLC

VARIABLES fb, tex, surf, last, ub, sc

vars == <<fb, tex, surf, last, ub, sc>>

(***************************************************************************)
(* Bounds of the model.                                                    *)
(***************************************************************************)
\* Framebuffer objects of the life-cycle specification.
FBs == {1, 2}
\* The Framebuffer that may be the window surface (mIsSystem); 1 is always off-screen.
SystemCandidates == {2}
\* Names of the texture array and of the renderbuffer array (0 is "no object").
Names == {1, 2, 3}
\* Swap images of the window surface.
SwapImages == {0, 1, 2}
\* Combined depth-stencil surfaces that can be allocated in one behaviour.
MaxSurfaces == 3
\* Rebuilds (render pass + per-buffer objects) of one Framebuffer in one behaviour.
MaxBuilds == 2

(***************************************************************************)
(* Values.                                                                 *)
(***************************************************************************)
NullTex == <<"NULL", 0>>
NullSurf == 0

TextureObj(n) == <<"GL_TEXTURE", n>>
RenderbufferObj(n) == <<"GL_RENDERBUFFER", n>>
SwapObj(i) == <<"SWAP", i>>
DSObj(k) == <<"DS", k>>

TexObjs ==
    {TextureObj(n) : n \in Names} \cup {RenderbufferObj(n) : n \in Names}
        \cup {SwapObj(i) : i \in SwapImages}

Surfaces == 1..MaxSurfaces

(***************************************************************************)
(* Attachment, Texture and RenderPass: the collaborators' contracts.       *)
(***************************************************************************)
\* An Attachment: empty (Attachment()) or created for a texture (Attachment(texture)).
EmptyAttachment == [type |-> "GL_NONE", name |-> 0, texture |-> NullTex]
AttachmentOf(t) == [type |-> "GL_TEXTURE", name |-> 0, texture |-> t]

\* The renderability predicates of utils/glUtils (OpenGL ES 2.0, table 4.5).
GlFormatIsColorRenderable(fmt) == fmt \in {"GL_RGB565", "GL_RGBA4", "GL_RGB5_A1"}
GlFormatIsDepthRenderable(fmt) == fmt \in {"GL_DEPTH_COMPONENT16"}
GlFormatIsStencilRenderable(fmt) == fmt \in {"GL_STENCIL_INDEX8"}

\* The six clear/write-enable flags a render pass records.
FlagsOf(cc, cd, cs, wc, wd, ws) ==
    [clearColor |-> cc, clearDepth |-> cd, clearStencil |-> cs,
     writeColor |-> wc, writeDepth |-> wd, writeStencil |-> ws]

AllFlags ==
    {FlagsOf(cc, cd, cs, wc, wd, ws) :
        cc \in BOOLEAN, cd \in BOOLEAN, cs \in BOOLEAN,
        wc \in BOOLEAN, wd \in BOOLEAN, ws \in BOOLEAN}

\* new vulkanAPI::RenderPass(vkContext): nothing created, nothing recorded yet.
NewRenderPass ==
    [gen |-> 0, flags |-> FlagsOf(FALSE, FALSE, FALSE, FALSE, FALSE, FALSE),
     colorFormat |-> "VK_FORMAT_UNDEFINED", dsFormat |-> "VK_FORMAT_UNDEFINED",
     ds |-> NullSurf, clear |-> 0]

(***************************************************************************)
(* Framebuffer::Framebuffer                                                *)
(***************************************************************************)
NewFramebuffer(isSystem) ==
    [state |-> "live",
     mIsSystem |-> isSystem,
     mUpdated |-> TRUE,
     mSizeUpdated |-> FALSE,
     mDepthStencilTexture |-> NullSurf,
     width |-> 0, height |-> 0,
     mAttachmentColors |-> << >>,
     mAttachmentDepth |-> EmptyAttachment,
     mAttachmentStencil |-> EmptyAttachment,
     mCacheColorTexture |-> NullTex, mCacheDepthTexture |-> NullTex,
     mCacheStencilTexture |-> NullTex,
     mCacheColorRenderbuffer |-> NullTex, mCacheDepthRenderbuffer |-> NullTex,
     mCacheStencilRenderbuffer |-> NullTex,
     mRenderPass |-> NewRenderPass,
     mFramebuffers |-> << >>,
     nextImageIndex |-> 0,
     heldAtDeath |-> NullSurf]

(***************************************************************************)
(* Attachment getters.                                                     *)
(***************************************************************************)
GetColorAttachmentType(F) ==
    IF Len(F.mAttachmentColors) = 0 THEN "GL_NONE" ELSE F.mAttachmentColors[1].type
GetColorAttachmentName(F) ==
    IF Len(F.mAttachmentColors) = 0 THEN 0 ELSE F.mAttachmentColors[1].name
GetDepthAttachmentType(F) == F.mAttachmentDepth.type
GetDepthAttachmentName(F) == F.mAttachmentDepth.name
GetStencilAttachmentType(F) == F.mAttachmentStencil.type
GetStencilAttachmentName(F) == F.mAttachmentStencil.name

\* The buffer index of an off-screen Framebuffer whatever is asked.
GetCurrentBufferIndex_AlwaysZero(F) == 0

\* mIsSystem ? mEGLSurfaceInterface->nextImageIndex : 0
GetCurrentBufferIndex(F) == IF F.mIsSystem THEN F.nextImageIndex ELSE 0

\* The lookup all three Get<Channel>AttachmentTexture share once mIsSystem is
\* decided: the memoized pointer if there is one, else the array object.
ResolveAttachment(index, type, cacheTexture, cacheRenderbuffer) ==
    IF index # 0
    THEN IF type = "GL_TEXTURE"
         THEN IF cacheTexture # NullTex THEN cacheTexture ELSE TextureObj(index)
         ELSE IF type = "GL_RENDERBUFFER"
              THEN IF cacheRenderbuffer # NullTex THEN cacheRenderbuffer
                   ELSE RenderbufferObj(index)
              ELSE NullTex
    ELSE NullTex

GetColorAttachmentTexture(F) ==
    IF F.mIsSystem
    THEN F.mAttachmentColors[GetCurrentBufferIndex(F) + 1].texture
    ELSE ResolveAttachment(GetColorAttachmentName(F), GetColorAttachmentType(F),
                           F.mCacheColorTexture, F.mCacheColorRenderbuffer)

\* A window surface answers with its own combined surface (a Texture as well).
DepthStencilRef(F) ==
    IF F.mDepthStencilTexture = NullSurf THEN NullTex
    ELSE DSObj(F.mDepthStencilTexture)

GetDepthAttachmentTexture(F) ==
    IF F.mIsSystem
    THEN DepthStencilRef(F)
    ELSE ResolveAttachment(GetDepthAttachmentName(F), GetDepthAttachmentType(F),
                           F.mCacheDepthTexture, F.mCacheDepthRenderbuffer)

GetStencilAttachmentTexture(F) ==
    IF F.mIsSystem
    THEN DepthStencilRef(F)
    ELSE ResolveAttachment(GetStencilAttachmentName(F), GetStencilAttachmentType(F),
                           F.mCacheStencilTexture, F.mCacheStencilRenderbuffer)

\* Attachment(i) of the slot list: GetColorAttachmentTexture(i) of Framebuffer::Create.
GetColorAttachmentTextureAt(F, i) ==
    IF F.mIsSystem THEN F.mAttachmentColors[i].texture
    ELSE IF i = 1 THEN GetColorAttachmentTexture(F) ELSE NullTex

(***************************************************************************)
(* Framebuffer::CheckStatus                                                *)
(***************************************************************************)
\* One operand of the second rule: a bound attachment that cannot be rendered to.
BadAttachment(type, renderable, w, h) ==
    /\ type # "GL_NONE"
    /\ \/ ~renderable
       \/ w <= 0
       \/ h <= 0

\* One of the three pairwise comparisons of the third rule.
DimensionsDiffer(typeA, wA, hA, typeB, wB, hB) ==
    /\ typeA # "GL_NONE"
    /\ typeB # "GL_NONE"
    /\ \/ wA # wB
       \/ hA # hB

\* The order of the third rule's comparisons before the second rule: a
\* reordering of the two ifs.
CheckStatus_DimensionsFirst(F, T) ==
    LET ct == GetColorAttachmentType(F)
        dt == GetDepthAttachmentType(F)
        st == GetStencilAttachmentType(F)
        c  == T[GetColorAttachmentTexture(F)]
        d  == T[GetDepthAttachmentTexture(F)]
        s  == T[GetStencilAttachmentTexture(F)]
    IN  IF ct = "GL_NONE" /\ dt = "GL_NONE" /\ st = "GL_NONE"
        THEN "GL_FRAMEBUFFER_INCOMPLETE_MISSING_ATTACHMENT"
        ELSE IF \/ DimensionsDiffer(ct, c.w, c.h, dt, d.w, d.h)
                \/ DimensionsDiffer(ct, c.w, c.h, st, s.w, s.h)
                \/ DimensionsDiffer(dt, d.w, d.h, st, s.w, s.h)
        THEN "GL_FRAMEBUFFER_INCOMPLETE_DIMENSIONS"
        ELSE IF \/ BadAttachment(ct, GlFormatIsColorRenderable(c.fmt), c.w, c.h)
                \/ BadAttachment(dt, GlFormatIsDepthRenderable(d.fmt), d.w, d.h)
                \/ BadAttachment(st, GlFormatIsStencilRenderable(s.fmt), s.w, s.h)
        THEN "GL_FRAMEBUFFER_INCOMPLETE_ATTACHMENT"
        ELSE "GL_FRAMEBUFFER_COMPLETE"

\* The first rule tests the color attachment alone.
CheckStatus_ColorOnlyMissing(F, T) ==
    LET ct == GetColorAttachmentType(F)
        dt == GetDepthAttachmentType(F)
        st == GetStencilAttachmentType(F)
        c  == T[GetColorAttachmentTexture(F)]
        d  == T[GetDepthAttachmentTexture(F)]
        s  == T[GetStencilAttachmentTexture(F)]
    IN  IF ct = "GL_NONE" /\ (dt # "GL_NONE" \/ st # "GL_NONE")
        THEN "GL_FRAMEBUFFER_INCOMPLETE_MISSING_ATTACHMENT"
        ELSE IF \/ BadAttachment(ct, GlFormatIsColorRenderable(c.fmt), c.w, c.h)
                \/ BadAttachment(dt, GlFormatIsDepthRenderable(d.fmt), d.w, d.h)
                \/ BadAttachment(st, GlFormatIsStencilRenderable(s.fmt), s.w, s.h)
        THEN "GL_FRAMEBUFFER_INCOMPLETE_ATTACHMENT"
        ELSE IF \/ DimensionsDiffer(ct, c.w, c.h, dt, d.w, d.h)
                \/ DimensionsDiffer(ct, c.w, c.h, st, s.w, s.h)
                \/ DimensionsDiffer(dt, d.w, d.h, st, s.w, s.h)
        THEN "GL_FRAMEBUFFER_INCOMPLETE_DIMENSIONS"
        ELSE "GL_FRAMEBUFFER_COMPLETE"

\* The third rule without its depth/stencil comparison.
CheckStatus_NoDepthStencilPair(F, T) ==
    LET ct == GetColorAttachmentType(F)
        dt == GetDepthAttachmentType(F)
        st == GetStencilAttachmentType(F)
        c  == T[GetColorAttachmentTexture(F)]
        d  == T[GetDepthAttachmentTexture(F)]
        s  == T[GetStencilAttachmentTexture(F)]
    IN  IF ct = "GL_NONE" /\ dt = "GL_NONE" /\ st = "GL_NONE"
        THEN "GL_FRAMEBUFFER_INCOMPLETE_MISSING_ATTACHMENT"
        ELSE IF \/ BadAttachment(ct, GlFormatIsColorRenderable(c.fmt), c.w, c.h)
                \/ BadAttachment(dt, GlFormatIsDepthRenderable(d.fmt), d.w, d.h)
                \/ BadAttachment(st, GlFormatIsStencilRenderable(s.fmt), s.w, s.h)
        THEN "GL_FRAMEBUFFER_INCOMPLETE_ATTACHMENT"
        ELSE IF \/ DimensionsDiffer(ct, c.w, c.h, dt, d.w, d.h)
                \/ DimensionsDiffer(ct, c.w, c.h, st, s.w, s.h)
        THEN "GL_FRAMEBUFFER_INCOMPLETE_DIMENSIONS"
        ELSE "GL_FRAMEBUFFER_COMPLETE"

\* The second rule tests the sizes of the color attachment alone.
CheckStatus_SizeOfColorOnly(F, T) ==
    LET ct == GetColorAttachmentType(F)
        dt == GetDepthAttachmentType(F)
        st == GetStencilAttachmentType(F)
        c  == T[GetColorAttachmentTexture(F)]
        d  == T[GetDepthAttachmentTexture(F)]
        s  == T[GetStencilAttachmentTexture(F)]
    IN  IF ct = "GL_NONE" /\ dt = "GL_NONE" /\ st = "GL_NONE"
        THEN "GL_FRAMEBUFFER_INCOMPLETE_MISSING_ATTACHMENT"
        ELSE IF \/ BadAttachment(ct, GlFormatIsColorRenderable(c.fmt), c.w, c.h)
                \/ BadAttachment(dt, GlFormatIsDepthRenderable(d.fmt), 1, 1)
                \/ BadAttachment(st, GlFormatIsStencilRenderable(s.fmt), 1, 1)
        THEN "GL_FRAMEBUFFER_INCOMPLETE_ATTACHMENT"
        ELSE IF \/ DimensionsDiffer(ct, c.w, c.h, dt, d.w, d.h)
                \/ DimensionsDiffer(ct, c.w, c.h, st, s.w, s.h)
                \/ DimensionsDiffer(dt, d.w, d.h, st, s.w, s.h)
        THEN "GL_FRAMEBUFFER_INCOMPLETE_DIMENSIONS"
        ELSE "GL_FRAMEBUFFER_COMPLETE"

\* T maps each Texture reference to its fields (TexView).
CheckStatus(F, T) ==
    LET ct == GetColorAttachmentType(F)
        dt == GetDepthAttachmentType(F)
        st == GetStencilAttachmentType(F)
        c  == T[GetColorAttachmentTexture(F)]
        d  == T[GetDepthAttachmentTexture(F)]
        s  == T[GetStencilAttachmentTexture(F)]
    IN  IF ct = "GL_NONE" /\ dt = "GL_NONE" /\ st = "GL_NONE"
        THEN "GL_FRAMEBUFFER_INCOMPLETE_MISSING_ATTACHMENT"
        ELSE IF \/ BadAttachment(ct, GlFormatIsColorRenderable(c.fmt), c.w, c.h)
                \/ BadAttachment(dt, GlFormatIsDepthRenderable(d.fmt), d.w, d.h)
                \/ BadAttachment(st, GlFormatIsStencilRenderable(s.fmt), s.w, s.h)
        THEN "GL_FRAMEBUFFER_INCOMPLETE_ATTACHMENT"
        ELSE IF \/ DimensionsDiffer(ct, c.w, c.h, dt, d.w, d.h)
                \/ DimensionsDiffer(ct, c.w, c.h, st, s.w, s.h)
                \/ DimensionsDiffer(dt, d.w, d.h, st, s.w, s.h)
        THEN "GL_FRAMEBUFFER_INCOMPLETE_DIMENSIONS"
        ELSE "GL_FRAMEBUFFER_COMPLETE"

(***************************************************************************)
(* The record of the last operation (a history variable the properties     *)
(* read; no operation reads it).                                           *)
(***************************************************************************)
\* No lower-level framebuffer object.
NoVkFramebuffer ==
    [id |-> <<0, 0>>, views |-> << >>, renderPass |-> 0, w |-> 0, h |-> 0]

NoOp ==
    [op |-> "none", f |-> 0, status |-> "none", index |-> 0, begun |-> NoVkFramebuffer,
     flags |-> FlagsOf(FALSE, FALSE, FALSE, FALSE, FALSE, FALSE), clear |-> 0,
     updatedIn |-> FALSE, sizeUpdatedIn |-> FALSE,
     rebuilt |-> FALSE, createdDS |-> FALSE, released |-> NullSurf, ok |-> TRUE]

\* A texture of the arrays; nothing recorded on it.
TextureOf(w, h, fmt) ==
    [w |-> w, h |-> h, fmt |-> fmt, ds |-> NullSurf, dataUpdated |-> FALSE]

\* Every Texture a Get<Channel>AttachmentTexture can return, by reference: the
\* array objects, the swap images, the combined surfaces; nullptr has no fields
\* (the code tests the attachment type before it reads any).
TexView(T, S) ==
    [t \in TexObjs \cup {NullTex} \cup {DSObj(k) : k \in Surfaces} |->
        IF t \in TexObjs THEN T[t]
        ELSE IF t = NullTex THEN TextureOf(0, 0, "GL_NONE")
        ELSE TextureOf(S[t[2]].w, S[t[2]].h, "GL_DEPTH_STENCIL")]

\* An unallocated combined depth-stencil surface.
NoSurface ==
    [st |-> "free", w |-> 0, h |-> 0, rc |-> 0, deletes |-> 0,
     depthFmt |-> "GL_INVALID_VALUE", stencilFmt |-> "GL_INVALID_VALUE"]

\* The stencil-clear machine at rest.
NoClear == [pc |-> "off"]

(***************************************************************************)
(* SpecStatus: CheckStatus over drawn attachment configurations of         *)
(* Framebuffer 1 (color bound to name 1, depth to 2, stencil to 3).        *)
(***************************************************************************)
StatusTypes == {"GL_NONE", "GL_TEXTURE", "GL_RENDERBUFFER"}
StatusFormats == {"GL_RGB565", "GL_DEPTH_COMPONENT16", "GL_STENCIL_INDEX8"}
StatusDims ==
    {<<0, 256>>, <<256, 0>>, <<256, 256>>, <<256, 512>>, <<512, 256>>, <<512, 512>>}

\* One channel's drawn binding: nothing, or an object with drawn size and format.
StatusBindings ==
    {[type |-> "GL_NONE", dim |-> <<0, 0>>, fmt |-> "GL_RGB565"]}
        \cup [type : StatusTypes \ {"GL_NONE"}, dim : StatusDims, fmt : StatusFormats]

StatusAttachment(b, n) ==
    IF b.type = "GL_NONE" THEN EmptyAttachment
    ELSE [type |-> b.type, name |-> n, texture |-> NullTex]

StatusObj(b, n) == IF b.type = "GL_TEXTURE" THEN TextureObj(n) ELSE RenderbufferObj(n)

InitStatus ==
    \E c \in StatusBindings, d \in StatusBindings, s \in StatusBindings :
        /\ fb = [f \in FBs |->
                    IF f = 1
                    THEN [NewFramebuffer(FALSE) EXCEPT
                            !.mAttachmentColors =
                                IF c.type = "GL_NONE" THEN << >>
                                ELSE <<StatusAttachment(c, 1)>>,
                            !.mAttachmentDepth = StatusAttachment(d, 2),
                            !.mAttachmentStencil = StatusAttachment(s, 3)]
                    ELSE NewFramebuffer(FALSE)]
        /\ tex = [t \in TexObjs |->
                    IF c.type # "GL_NONE" /\ t = StatusObj(c, 1)
                    THEN TextureOf(c.dim[1], c.dim[2], c.fmt)
                    ELSE IF d.type # "GL_NONE" /\ t = StatusObj(d, 2)
                    THEN TextureOf(d.dim[1], d.dim[2], d.fmt)
                    ELSE IF s.type # "GL_NONE" /\ t = StatusObj(s, 3)
                    THEN TextureOf(s.dim[1], s.dim[2], s.fmt)
                    ELSE TextureOf(0, 0, "GL_RGB565")]
        /\ surf = [k \in Surfaces |-> NoSurface]
        /\ last = NoOp
        /\ ub = FALSE
        /\ sc = NoClear

\* glCheckFramebufferStatus -> Framebuffer::CheckStatus: reads, writes nothing.
DoCheckStatus(f) ==
    /\ ~ub
    /\ fb[f].state = "live"
    /\ last' = [NoOp EXCEPT !.op = "CheckStatus", !.f = f,
                            !.status = CheckStatus(fb[f], TexView(tex, surf))]
    /\ UNCHANGED <<fb, tex, surf, ub, sc>>

NextStatus == DoCheckStatus(1)

SpecStatus == InitStatus /\ [][NextStatus]_vars

(***************************************************************************)
(* Framebuffer::UpdateClearDepthStencilTexture                             *)
(*                                                                         *)
(* sc is the call in progress: its arguments, the stencil plane of         *)
(* mDepthStencilTexture (image), the host buffer dstData, the loop         *)
(* variables row, col and dataPtr (an offset into dstData), and how often  *)
(* each pixel was visited.                                                 *)
(***************************************************************************)
RECURSIVE BitAnd(_, _)
\* a & b on naturals.
BitAnd(a, b) ==
    IF a = 0 \/ b = 0 THEN 0
    ELSE (a % 2) * (b % 2) + 2 * BitAnd(a \div 2, b \div 2)

RECURSIVE BitOr(_, _)
\* a | b on naturals.
BitOr(a, b) ==
    IF a = 0 THEN b
    ELSE IF b = 0 THEN a
    ELSE (IF a % 2 = 1 \/ b % 2 = 1 THEN 1 ELSE 0) + 2 * BitOr(a \div 2, b \div 2)

\* ~a of a 32-bit operand, on its low 31 bits (the other operand of the & that
\* follows is below 2^8, so bit 31 never shows).
BitNot(a) == 2147483647 - a

\* The mask is not inverted.
NewStencilValue_MaskNotInverted(clearStencil, stencilMaskFront, oldStencilValue) ==
    BitOr(BitAnd(clearStencil, 255),
          BitAnd(BitAnd(oldStencilValue, 255), BitAnd(stencilMaskFront, 255))) % 256

\* uint8_t newStencilValue =
\*     (clearStencil & 0xFF) | ((oldStencilValue & 0xFF) & (~(stencilMaskFront & 0xFF)));
NewStencilValue(clearStencil, stencilMaskFront, oldStencilValue) ==
    BitOr(BitAnd(clearStencil, 255),
          BitAnd(BitAnd(oldStencilValue, 255), BitNot(BitAnd(stencilMaskFront, 255)))) % 256

\* ImageRect: bytes of one pixel, bytes of one row at the alignment, first byte of
\* the rectangle.
GetPixelByteOffset(numElements) == numElements
GetRectAlignedRowInBytes(width, numElements, alignment) ==
    ((width * GetPixelByteOffset(numElements) + alignment - 1) \div alignment) * alignment
GetStartRowIndex(x, y, numElements, rowStride) ==
    y * rowStride + x * GetPixelByteOffset(numElements)
GetRectBufferSize(width, height, numElements, alignment) ==
    height * GetRectAlignedRowInBytes(width, numElements, alignment)

\* The stencil image of the model and the drawn arguments.
ImagePixels == (0..9) \X (0..9)
ByteSamples == {0, 15, 165, 240, 255}
ClearRects ==
    {[x |-> 1, y |-> 1, width |-> 8, height |-> 8],
     [x |-> 0, y |-> 7, width |-> 3, height |-> 2]}
ElementCounts == {1, 2}
Alignments == {1, 4}

InRect(p, r) ==
    /\ r.x <= p[1] /\ p[1] < r.x + r.width
    /\ r.y <= p[2] /\ p[2] < r.y + r.height

InitStencil ==
    \E clearStencil \in ByteSamples, stencilMaskFront \in ByteSamples,
       old \in ByteSamples, rect \in ClearRects,
       n \in ElementCounts, a \in Alignments :
        /\ sc = [pc |-> "entry",
                 clearStencil |-> clearStencil,
                 stencilMaskFront |-> stencilMaskFront,
                 clearRect |-> rect, numElements |-> n, alignment |-> a,
                 image |-> [p \in ImagePixels |-> old],
                 image0 |-> [p \in ImagePixels |-> old],
                 dstData |-> << >>,
                 row |-> 0, col |-> 0, dataPtr |-> 0,
                 visits |-> [p \in ImagePixels |-> 0]]
        /\ fb = [f \in FBs |-> NewFramebuffer(FALSE)]
        /\ tex = [t \in TexObjs |-> TextureOf(0, 0, "GL_RGB565")]
        /\ surf = [k \in Surfaces |-> NoSurface]
        /\ last = NoOp
        /\ ub = FALSE

\* Lines 345-367: the host buffer is allocated (its bytes are not initialised:
\* 256 stands for such a byte), CopyPixelsToHost stores the stencil byte of
\* pixel (x + c, y + r) of the rectangle at r * stride + c * pixelBytes of dstData
\* (dstRect is srcRect moved to 0,0), and dataPtr is set to the first row.
CopyPixelsToHost ==
    /\ sc.pc = "entry"
    /\ LET r      == sc.clearRect
           stride == GetRectAlignedRowInBytes(r.width, sc.numElements, sc.alignment)
           size   == GetRectBufferSize(r.width, r.height, sc.numElements, sc.alignment)
           pix    == GetPixelByteOffset(sc.numElements)
       IN  sc' = [sc EXCEPT
                    !.pc = "loop",
                    !.dstData =
                        [i \in 1..size |->
                            LET rr == (i - 1) \div stride
                                cc == ((i - 1) % stride) \div pix
                            IN  IF ((i - 1) % stride) % pix = 0 /\ cc < r.width
                                THEN sc.image[<<r.x + cc, r.y + rr>>]
                                ELSE 256],
                    !.row = 0, !.col = 0,
                    !.dataPtr = GetStartRowIndex(0, 0, sc.numElements, stride)]
    /\ UNCHANGED <<fb, tex, surf, last, ub>>

\* Lines 376-382: the body of the inner loop, for pixel (col, row) of the rectangle.
ClearPixel ==
    /\ sc.pc = "loop"
    /\ sc.row < sc.clearRect.height
    /\ sc.col < sc.clearRect.width
    /\ LET dataIndex == sc.col * GetPixelByteOffset(sc.numElements)
           at        == sc.dataPtr + dataIndex + 1
           oldStencilValue == sc.dstData[at]
           p         == <<sc.clearRect.x + sc.col, sc.clearRect.y + sc.row>>
       IN  sc' = [sc EXCEPT
                    !.dstData[at] =
                        NewStencilValue(sc.clearStencil, sc.stencilMaskFront, oldStencilValue),
                    !.visits[p] = @ + 1,
                    !.col = @ + 1]
    /\ UNCHANGED <<fb, tex, surf, last, ub>>

\* Lines 375, 383-385: the inner loop is over; next row.
NextRow ==
    /\ sc.pc = "loop"
    /\ sc.row < sc.clearRect.height
    /\ sc.col >= sc.clearRect.width
    /\ sc' = [sc EXCEPT
                !.row = @ + 1, !.col = 0,
                !.dataPtr = @ + GetRectAlignedRowInBytes(sc.clearRect.width,
                                                         sc.numElements, sc.alignment)]
    /\ UNCHANGED <<fb, tex, surf, last, ub>>

\* Lines 387-391: CopyPixelsFromHost writes dstData back to the same rectangle.
CopyPixelsFromHost ==
    /\ sc.pc = "loop"
    /\ sc.row >= sc.clearRect.height
    /\ LET r      == sc.clearRect
           stride == GetRectAlignedRowInBytes(r.width, sc.numElements, sc.alignment)
           pix    == GetPixelByteOffset(sc.numElements)
       IN  sc' = [sc EXCEPT
                    !.pc = "done",
                    !.image =
                        [p \in ImagePixels |->
                            IF InRect(p, r)
                            THEN sc.dstData[(p[2] - r.y) * stride + (p[1] - r.x) * pix + 1]
                            ELSE sc.image[p]]]
    /\ UNCHANGED <<fb, tex, surf, last, ub>>

NextStencil == CopyPixelsToHost \/ ClearPixel \/ NextRow \/ CopyPixelsFromHost

SpecStencil == InitStencil /\ [][NextStencil]_vars

(***************************************************************************)
(* The life cycle: operations on one Framebuffer record F, over the        *)
(* textures T and the combined surfaces S.                                 *)
(***************************************************************************)
\* The surfaces among ks that were deleted: dereferencing one is undefined.
Dangling(S, ks) == \E k \in ks \ {NullSurf} : S[k].st = "deleted"

\* Framebuffer::CleanCachedAttachment
\* CleanCachedAttachment that forgets only the cached textures.
CleanCachedAttachment_TexturesOnly(F, attachment) ==
    IF attachment = "GL_COLOR_ATTACHMENT0"
    THEN IF GetColorAttachmentName(F) # 0 /\ GetColorAttachmentType(F) = "GL_TEXTURE"
         THEN [F EXCEPT !.mCacheColorTexture = NullTex] ELSE F
    ELSE IF attachment = "GL_DEPTH_ATTACHMENT"
    THEN IF GetDepthAttachmentName(F) # 0 /\ GetDepthAttachmentType(F) = "GL_TEXTURE"
         THEN [F EXCEPT !.mCacheDepthTexture = NullTex] ELSE F
    ELSE IF attachment = "GL_STENCIL_ATTACHMENT"
    THEN IF GetStencilAttachmentName(F) # 0 /\ GetStencilAttachmentType(F) = "GL_TEXTURE"
         THEN [F EXCEPT !.mCacheStencilTexture = NullTex] ELSE F
    ELSE F

CleanCachedAttachment(F, attachment) ==
    IF attachment = "GL_COLOR_ATTACHMENT0"
    THEN IF GetColorAttachmentName(F) = 0 THEN F
         ELSE IF GetColorAttachmentType(F) = "GL_TEXTURE"
              THEN [F EXCEPT !.mCacheColorTexture = NullTex]
         ELSE IF GetColorAttachmentType(F) = "GL_RENDERBUFFER"
              THEN [F EXCEPT !.mCacheColorRenderbuffer = NullTex]
         ELSE F
    ELSE IF attachment = "GL_DEPTH_ATTACHMENT"
    THEN IF GetDepthAttachmentName(F) = 0 THEN F
         ELSE IF GetDepthAttachmentType(F) = "GL_TEXTURE"
              THEN [F EXCEPT !.mCacheDepthTexture = NullTex]
         ELSE IF GetDepthAttachmentType(F) = "GL_RENDERBUFFER"
              THEN [F EXCEPT !.mCacheDepthRenderbuffer = NullTex]
         ELSE F
    ELSE IF attachment = "GL_STENCIL_ATTACHMENT"
    THEN IF GetStencilAttachmentName(F) = 0 THEN F
         ELSE IF GetStencilAttachmentType(F) = "GL_TEXTURE"
              THEN [F EXCEPT !.mCacheStencilTexture = NullTex]
         ELSE IF GetStencilAttachmentType(F) = "GL_RENDERBUFFER"
              THEN [F EXCEPT !.mCacheStencilRenderbuffer = NullTex]
         ELSE F
    ELSE F

\* Framebuffer::SetColorAttachment(int width, int height)
SetColorAttachment(F, S, width, height) ==
    LET ds == F.mDepthStencilTexture
    IN  [F EXCEPT
            !.mAttachmentColors = IF Len(@) = 0 THEN <<EmptyAttachment>> ELSE @,
            !.width = width,
            !.height = height,
            !.mUpdated = TRUE,
            !.mSizeUpdated =
                (ds = NullSurf) \/ (S[ds].w # width \/ S[ds].h # height)]

\* Framebuffer::AddColorAttachment(Texture *texture)
AddColorAttachment(F, T, texture) ==
    [F EXCEPT
        !.mAttachmentColors = Append(@, AttachmentOf(texture)),
        !.width = T[texture].w,
        !.height = T[texture].h,
        !.mUpdated = TRUE]

\* Framebuffer::CheckForUpdatedResources, the Framebuffer's side.
CheckForUpdatedResources(F, T) ==
    LET c == GetColorAttachmentTexture(F)
    IN  IF c = NullTex THEN F
        ELSE LET F1 == [F EXCEPT !.mUpdated = @ \/ T[c].dataUpdated]
             IN  IF T[c].w # F1.width \/ T[c].h # F1.height
                 THEN [F1 EXCEPT !.width = T[c].w, !.height = T[c].h,
                                 !.mSizeUpdated = TRUE]
                 ELSE F1

\* A surface CreateDepthStencilTexture can allocate: the lowest one still free.
FreeSurfaces(S) == {k \in Surfaces : S[k].st = "free"}
NewSurface(S) == CHOOSE k \in FreeSurfaces(S) : \A j \in FreeSurfaces(S) : k <= j

\* delete of a combined surface.
DeleteSurface(S, k) == [S EXCEPT ![k].st = "deleted", ![k].deletes = @ + 1]

\* Texture::IncreaseDepthStencilTextureRefCount / Decrease...
IncreaseRefCount(S, k) == [S EXCEPT ![k].rc = @ + 1]
DecreaseRefCount(S, k) == [S EXCEPT ![k].rc = @ - 1]

\* Whether CreateDepthStencilTexture takes the sharing return of lines 305-309.
AdoptsRecorded(F, T) ==
    /\ ~F.mIsSystem
    /\ GetDepthAttachmentTexture(F) # NullTex
    /\ T[GetDepthAttachmentTexture(F)].ds # NullSurf

\* The record step that takes the window surface for a sharer as well.
RecordsOnDepth_AnyFramebuffer(F) == GetDepthAttachmentTexture(F) # NullTex

\* Whether CreateDepthStencilTexture records the new surface on the depth
\* attachment's texture and counts the reference (line 335).
RecordsOnDepth(F) == ~F.mIsSystem /\ GetDepthAttachmentTexture(F) # NullTex

\* Whether CreateDepthStencilTexture reaches new Texture (line 316).
Allocates(F, T) ==
    /\ GetDepthAttachmentTexture(F) # NullTex \/ GetStencilAttachmentTexture(F) # NullTex
    /\ ~AdoptsRecorded(F, T)

\* CreateDepthStencilTexture whose sharing return leaves the count as it is.
CreateDepthStencilTexture_AdoptNoIncrement(F, T, S) ==
    LET d == GetDepthAttachmentTexture(F)
        s == GetStencilAttachmentTexture(F)
        old == F.mDepthStencilTexture
    IN  IF d = NullTex /\ s = NullTex
        THEN [fb |-> F, tex |-> T, surf |-> S,
              deref |-> {}, created |-> FALSE, released |-> NullSurf]
        ELSE IF AdoptsRecorded(F, T)
        THEN [fb |-> [F EXCEPT !.mDepthStencilTexture = T[d].ds],
              tex |-> T,
              surf |-> S,
              deref |-> {T[d].ds}, created |-> FALSE, released |-> NullSurf]
        ELSE LET S1 == IF old # NullSurf THEN DeleteSurface(S, old) ELSE S
                 k  == NewSurface(S)
                 V  == TexView(T, S)
                 S2 == [S1 EXCEPT ![k] =
                          [st |-> "alive", w |-> F.width, h |-> F.height,
                           rc |-> 0, deletes |-> 0,
                           depthFmt |->
                              IF F.mIsSystem THEN "GL_INVALID_VALUE"
                              ELSE IF d # NullTex THEN V[d].fmt ELSE "GL_INVALID_VALUE",
                           stencilFmt |->
                              IF F.mIsSystem THEN "GL_INVALID_VALUE"
                              ELSE IF s # NullTex THEN V[s].fmt ELSE "GL_INVALID_VALUE"]]
                 share == RecordsOnDepth(F)
             IN  [fb |-> [F EXCEPT !.mDepthStencilTexture = k],
                  tex |-> IF share THEN [T EXCEPT ![d].ds = k] ELSE T,
                  surf |-> IF share THEN IncreaseRefCount(S2, k) ELSE S2,
                  deref |-> {old}, created |-> TRUE, released |-> old]

\* Framebuffer::CreateDepthStencilTexture: the Framebuffer, the textures and the
\* surfaces afterwards; deref are the surfaces it dereferenced, released the one
\* it deleted, created whether it allocated.
CreateDepthStencilTexture(F, T, S) ==
    LET d == GetDepthAttachmentTexture(F)
        s == GetStencilAttachmentTexture(F)
        old == F.mDepthStencilTexture
    IN  IF d = NullTex /\ s = NullTex
        THEN [fb |-> F, tex |-> T, surf |-> S,
              deref |-> {}, created |-> FALSE, released |-> NullSurf]
        ELSE IF AdoptsRecorded(F, T)
        THEN [fb |-> [F EXCEPT !.mDepthStencilTexture = T[d].ds],
              tex |-> T,
              surf |-> IncreaseRefCount(S, T[d].ds),
              deref |-> {T[d].ds}, created |-> FALSE, released |-> NullSurf]
        ELSE LET S1 == IF old # NullSurf THEN DeleteSurface(S, old) ELSE S
                 k  == NewSurface(S)
                 V  == TexView(T, S)
                 S2 == [S1 EXCEPT ![k] =
                          [st |-> "alive", w |-> F.width, h |-> F.height,
                           rc |-> 0, deletes |-> 0,
                           depthFmt |->
                              IF F.mIsSystem THEN "GL_INVALID_VALUE"
                              ELSE IF d # NullTex THEN V[d].fmt ELSE "GL_INVALID_VALUE",
                           stencilFmt |->
                              IF F.mIsSystem THEN "GL_INVALID_VALUE"
                              ELSE IF s # NullTex THEN V[s].fmt ELSE "GL_INVALID_VALUE"]]
                 share == RecordsOnDepth(F)
             IN  [fb |-> [F EXCEPT !.mDepthStencilTexture = k],
                  tex |-> IF share THEN [T EXCEPT ![d].ds = k] ELSE T,
                  surf |-> IF share THEN IncreaseRefCount(S2, k) ELSE S2,
                  deref |-> {old}, created |-> TRUE, released |-> old]

\* Framebuffer::CreateVkRenderPass: the flags are recorded and the render pass
\* is created anew (gen counts the creations) for the two formats.
CreateVkRenderPass(F, T, S, flags) ==
    LET c  == GetColorAttachmentTexture(F)
        ds == F.mDepthStencilTexture
    IN  [F EXCEPT
            !.mRenderPass.flags = flags,
            !.mRenderPass.gen = @ + 1,
            !.mRenderPass.colorFormat =
                IF c # NullTex THEN T[c].fmt ELSE "VK_FORMAT_UNDEFINED",
            !.mRenderPass.dsFormat =
                IF ds # NullSurf THEN <<S[ds].depthFmt, S[ds].stencilFmt>>
                ELSE "VK_FORMAT_UNDEFINED",
            !.mRenderPass.ds = ds]

\* Framebuffer::Release
Release(F) == [F EXCEPT !.mFramebuffers = << >>]

\* The image views of slot i with the depth-stencil view pushed first.
ImageViews_DepthFirst(F, i) ==
    (IF F.mDepthStencilTexture # NullSurf
     THEN <<DSObj(F.mDepthStencilTexture)>> ELSE << >>)
    \o (IF GetColorAttachmentTextureAt(F, i) # NullTex
        THEN <<GetColorAttachmentTextureAt(F, i)>> ELSE << >>)

\* The image views of slot i (lines 698-704).
ImageViews(F, i) ==
    (IF GetColorAttachmentTextureAt(F, i) # NullTex
     THEN <<GetColorAttachmentTextureAt(F, i)>> ELSE << >>)
    \o (IF F.mDepthStencilTexture # NullSurf
        THEN <<DSObj(F.mDepthStencilTexture)>> ELSE << >>)

\* The lower-level framebuffer object of slot i, created against the current
\* render pass at the Framebuffer's size.
VkFramebufferOf(F, i) ==
    [id |-> <<F.mRenderPass.gen, i>>, views |-> ImageViews(F, i),
     renderPass |-> F.mRenderPass.gen, w |-> F.width, h |-> F.height]

\* Framebuffer::Create where frameBuffer->Create fails at slot failAt (0: at
\* none): the objects of the slots before it were pushed already.
Create(F, failAt) ==
    LET n == Len(F.mAttachmentColors)
        m == IF failAt = 0 THEN n ELSE failAt - 1
    IN  [Release(F) EXCEPT !.mFramebuffers = [i \in 1..m |-> VkFramebufferOf(F, i)]]

\* The condition without the comparison of the stencil write flag.
NeedsRebuild_FiveFlags(F, flags) ==
    \/ F.mUpdated
    \/ F.mSizeUpdated
    \/ F.mRenderPass.flags.clearColor # flags.clearColor
    \/ F.mRenderPass.flags.clearDepth # flags.clearDepth
    \/ F.mRenderPass.flags.clearStencil # flags.clearStencil
    \/ F.mRenderPass.flags.writeColor # flags.writeColor
    \/ F.mRenderPass.flags.writeDepth # flags.writeDepth

\* The six comparisons of CreateRenderPass and the two dirty flags.
NeedsRebuild(F, flags) ==
    \/ F.mUpdated
    \/ F.mSizeUpdated
    \/ F.mRenderPass.flags.clearColor # flags.clearColor
    \/ F.mRenderPass.flags.clearDepth # flags.clearDepth
    \/ F.mRenderPass.flags.clearStencil # flags.clearStencil
    \/ F.mRenderPass.flags.writeColor # flags.writeColor
    \/ F.mRenderPass.flags.writeDepth # flags.writeDepth
    \/ F.mRenderPass.flags.writeStencil # flags.writeStencil

\* Whether this CreateRenderPass calls CreateDepthStencilTexture.
RebuildsSurface(F, flags) == NeedsRebuild(F, flags) /\ ~F.mIsSystem /\ F.mSizeUpdated

\* The tail of CreateRenderPass that records a stencil clear value of 0.
SetClearValues_NoStencil(F, clear) ==
    [F EXCEPT !.mRenderPass.clear = [clear EXCEPT !.stencil = 0]]

\* The tail of CreateRenderPass (lines 645-650): SetClearArea,
\* SetClearColorValue and SetClearDepthStencilValue with the arguments.
SetClearValues(F, clear) == [F EXCEPT !.mRenderPass.clear = clear]

\* Framebuffer::CreateRenderPass: as CreateDepthStencilTexture, a record of the
\* Framebuffer, textures and surfaces afterwards.
CreateRenderPass(F, T, S, flags, clear, failAt) ==
    IF NeedsRebuild(F, flags)
    THEN LET r  == IF RebuildsSurface(F, flags)
                   THEN CreateDepthStencilTexture(F, T, S)
                   ELSE [fb |-> F, tex |-> T, surf |-> S,
                         deref |-> {}, created |-> FALSE, released |-> NullSurf]
             F1 == IF RebuildsSurface(F, flags)
                   THEN [r.fb EXCEPT !.mSizeUpdated = FALSE] ELSE r.fb
             F2 == CreateVkRenderPass(F1, r.tex, r.surf, flags)
             F3 == Create(F2, failAt)
             F4 == SetClearValues([F3 EXCEPT !.mUpdated = FALSE], clear)
         IN  [r EXCEPT !.fb = F4, !.deref = @ \cup {F1.mDepthStencilTexture}]
    ELSE [fb |-> SetClearValues(F, clear), tex |-> T, surf |-> S,
          deref |-> {}, created |-> FALSE, released |-> NullSurf]

\* Framebuffer::~Framebuffer: the surfaces afterwards.
DestroySurfaces(F, S) ==
    LET ds == F.mDepthStencilTexture
    IN  IF ~F.mIsSystem /\ ds # NullSurf
        THEN IF S[ds].rc = 1 THEN DeleteSurface(S, ds) ELSE DecreaseRefCount(S, ds)
        ELSE S

(***************************************************************************)
(* Spec: two Framebuffers (2 may be the window surface) over the textures  *)
(* and renderbuffers of one context.                                       *)
(***************************************************************************)
\* What the client binds to each channel, and the sizes it gives its textures.
ColorInputs == {TextureObj(1)}
DepthInputs == {TextureObj(2), RenderbufferObj(2)}
StencilInputs == {RenderbufferObj(3)}
Resizable == {TextureObj(1), TextureObj(2)}
Sizes == {256, 512}
\* The flags and the clear values (rectangle, color, depth/stencil) of the
\* draw and clear calls.
FlagInputs ==
    {FlagsOf(TRUE, TRUE, TRUE, TRUE, TRUE, TRUE),
     FlagsOf(FALSE, TRUE, TRUE, TRUE, TRUE, TRUE)}
ClearInputs ==
    {[rect |-> <<0, 0, 256, 256>>, color |-> "black", depth |-> 1, stencil |-> 0]}

InitTextures ==
    [t \in TexObjs |->
        IF t = TextureObj(1) THEN TextureOf(256, 256, "GL_RGB565")
        ELSE IF t = RenderbufferObj(1) THEN TextureOf(512, 512, "GL_RGB565")
        ELSE IF t = TextureObj(2) THEN TextureOf(256, 256, "GL_DEPTH_COMPONENT16")
        ELSE IF t = RenderbufferObj(2) THEN TextureOf(512, 512, "GL_DEPTH_COMPONENT16")
        ELSE IF t = RenderbufferObj(3) THEN TextureOf(256, 256, "GL_STENCIL_INDEX8")
        ELSE TextureOf(256, 256, "GL_RGB565")]

\* A Framebuffer that was not constructed.
NotConstructed == [NewFramebuffer(FALSE) EXCEPT !.state = "none", !.mUpdated = FALSE]

\* One Framebuffer is constructed: an off-screen one, or the window surface.
Init ==
    /\ \E f \in FBs :
          fb = [g \in FBs |->
                  IF g = f THEN NewFramebuffer(g \in SystemCandidates) ELSE NotConstructed]
    /\ tex = InitTextures
    /\ surf = [k \in Surfaces |-> NoSurface]
    /\ last = NoOp
    /\ ub = FALSE
    /\ sc = NoClear

\* The Framebuffer can be operated on: it is alive and nothing undefined happened.
Live(f) == ~ub /\ fb[f].state = "live"

\* A window surface is used once all its swap images were added.
Usable(f) ==
    /\ Live(f)
    /\ fb[f].mIsSystem => Len(fb[f].mAttachmentColors) = Cardinality(SwapImages)

\* glFramebufferTexture2D / glFramebufferRenderbuffer of an attachment point
\* other than color: the cache is invalidated, the binding replaced (type
\* GL_NONE, name 0 detaches) and the Framebuffer marked dirty.
Rebind(F, attachment, type, name) ==
    LET F1 == CleanCachedAttachment(F, attachment)
        a  == [type |-> type, name |-> name, texture |-> NullTex]
    IN  IF attachment = "GL_DEPTH_ATTACHMENT"
        THEN [F1 EXCEPT !.mAttachmentDepth = a, !.mUpdated = TRUE]
        ELSE [F1 EXCEPT !.mAttachmentStencil = a, !.mUpdated = TRUE]

\* The same for the color attachment: the slot is made by SetColorAttachment,
\* called with the size of the texture.
RebindColor(F, T, S, type, name) ==
    LET F1 == CleanCachedAttachment(F, "GL_COLOR_ATTACHMENT0")
        t  == IF type = "GL_TEXTURE" THEN TextureObj(name) ELSE RenderbufferObj(name)
        F2 == SetColorAttachment(F1, S, T[t].w, T[t].h)
    IN  [F2 EXCEPT !.mAttachmentColors[1] =
                      [type |-> type, name |-> name, texture |-> NullTex]]

AttachColor(f, t) ==
    /\ Live(f)
    /\ ~fb[f].mIsSystem
    /\ fb' = [fb EXCEPT ![f] = RebindColor(fb[f], tex, surf, t[1], t[2])]
    /\ ub' = Dangling(surf, {fb[f].mDepthStencilTexture})
    /\ last' = [NoOp EXCEPT !.op = "AttachColor", !.f = f]
    /\ UNCHANGED <<tex, surf, sc>>

AttachDepth(f, t) ==
    /\ Live(f)
    /\ ~fb[f].mIsSystem
    /\ fb' = [fb EXCEPT ![f] = Rebind(fb[f], "GL_DEPTH_ATTACHMENT", t[1], t[2])]
    /\ last' = [NoOp EXCEPT !.op = "AttachDepth", !.f = f]
    /\ UNCHANGED <<tex, surf, ub, sc>>

AttachStencil(f, t) ==
    /\ Live(f)
    /\ ~fb[f].mIsSystem
    /\ fb' = [fb EXCEPT ![f] = Rebind(fb[f], "GL_STENCIL_ATTACHMENT", t[1], t[2])]
    /\ last' = [NoOp EXCEPT !.op = "AttachStencil", !.f = f]
    /\ UNCHANGED <<tex, surf, ub, sc>>

\* Detach(channel) of a depth or stencil attachment.
Detach(f, attachment) ==
    /\ Live(f)
    /\ ~fb[f].mIsSystem
    /\ fb' = [fb EXCEPT ![f] = Rebind(fb[f], attachment, "GL_NONE", 0)]
    /\ last' = [NoOp EXCEPT !.op = "Detach", !.f = f]
    /\ UNCHANGED <<tex, surf, ub, sc>>

\* SetColorAttachment(width, height) on its own: the window surface, its swap
\* images added, is resized.
DoSetColorAttachment(f, size) ==
    /\ Usable(f)
    /\ fb[f].mIsSystem
    /\ fb' = [fb EXCEPT ![f] = SetColorAttachment(fb[f], surf, size, size)]
    /\ ub' = Dangling(surf, {fb[f].mDepthStencilTexture})
    /\ last' = [NoOp EXCEPT !.op = "SetColorAttachment", !.f = f]
    /\ UNCHANGED <<tex, surf, sc>>

\* The swap images of the window surface are added in order.
DoAddColorAttachment(f, i) ==
    /\ Live(f)
    /\ fb[f].mIsSystem
    /\ Len(fb[f].mAttachmentColors) = i
    /\ fb' = [fb EXCEPT ![f] = AddColorAttachment(fb[f], tex, SwapObj(i))]
    /\ last' = [NoOp EXCEPT !.op = "AddColorAttachment", !.f = f]
    /\ UNCHANGED <<tex, surf, ub, sc>>

\* glTexImage2D / glRenderbufferStorage: the texture gets a new size and is
\* marked updated.
TexImage(t, size) ==
    /\ ~ub
    /\ tex[t].w # size
    /\ tex' = [tex EXCEPT ![t].w = size, ![t].h = size, ![t].dataUpdated = TRUE]
    /\ last' = [NoOp EXCEPT !.op = "TexImage"]
    /\ UNCHANGED <<fb, surf, ub, sc>>

DoCheckForUpdatedResources(f) ==
    /\ Usable(f)
    /\ fb' = [fb EXCEPT ![f] = CheckForUpdatedResources(fb[f], tex)]
    /\ tex' = IF GetColorAttachmentTexture(fb[f]) = NullTex THEN tex
              ELSE [tex EXCEPT ![GetColorAttachmentTexture(fb[f])].dataUpdated = FALSE]
    /\ last' = [NoOp EXCEPT !.op = "CheckForUpdatedResources", !.f = f,
                            !.updatedIn = fb[f].mUpdated,
                            !.sizeUpdatedIn = fb[f].mSizeUpdated]
    /\ UNCHANGED <<surf, ub, sc>>

\* The draw/clear path validates completeness before it prepares the render pass.
CallerValidated(f) == CheckStatus(fb[f], TexView(tex, surf)) = "GL_FRAMEBUFFER_COMPLETE"

\* PrepareForRender: Framebuffer::CreateRenderPass, frameBuffer->Create failing
\* at slot failAt (0: at none).
PrepareForRender(f, flags, clear, failAt) ==
    /\ Usable(f)
    /\ CallerValidated(f)
    /\ failAt <= Len(fb[f].mAttachmentColors)
    /\ NeedsRebuild(fb[f], flags) => fb[f].mRenderPass.gen < MaxBuilds
    /\ ~NeedsRebuild(fb[f], flags) => failAt = 0
    /\ (RebuildsSurface(fb[f], flags) /\ Allocates(fb[f], tex)) => FreeSurfaces(surf) # {}
    /\ LET r == CreateRenderPass(fb[f], tex, surf, flags, clear, failAt)
       IN  /\ fb' = [fb EXCEPT ![f] = r.fb]
           /\ tex' = r.tex
           /\ surf' = r.surf
           /\ ub' = Dangling(surf, r.deref)
           /\ last' = [NoOp EXCEPT
                         !.op = "CreateRenderPass", !.f = f, !.flags = flags,
                         !.clear = clear,
                         !.updatedIn = fb[f].mUpdated,
                         !.sizeUpdatedIn = fb[f].mSizeUpdated,
                         !.rebuilt = NeedsRebuild(fb[f], flags),
                         !.createdDS = r.created,
                         !.released = r.released,
                         !.ok = (failAt = 0)]
    /\ UNCHANGED sc

\* Framebuffer::~Framebuffer. What is left of the record is history: the
\* surface held and the depth attachment bound when it was destroyed.
Destroy(f) ==
    /\ Live(f)
    /\ fb' = [fb EXCEPT ![f] =
                [NewFramebuffer(fb[f].mIsSystem) EXCEPT
                    !.state = "dead",
                    !.mUpdated = FALSE,
                    !.mAttachmentDepth = fb[f].mAttachmentDepth,
                    !.heldAtDeath =
                        IF fb[f].mIsSystem THEN NullSurf ELSE fb[f].mDepthStencilTexture]]
    /\ surf' = DestroySurfaces(fb[f], surf)
    /\ ub' = (~fb[f].mIsSystem /\ Dangling(surf, {fb[f].mDepthStencilTexture}))
    /\ last' = [NoOp EXCEPT !.op = "Destroy", !.f = f,
                            !.released =
                                IF ~fb[f].mIsSystem /\ fb[f].mDepthStencilTexture # NullSurf
                                   /\ surf[fb[f].mDepthStencilTexture].rc = 1
                                THEN fb[f].mDepthStencilTexture ELSE NullSurf]
    /\ UNCHANGED <<tex, sc>>

Next ==
    \/ \E f \in FBs, t \in ColorInputs : AttachColor(f, t)
    \/ \E f \in FBs, t \in DepthInputs : AttachDepth(f, t)
    \/ \E f \in FBs, t \in StencilInputs : AttachStencil(f, t)
    \/ \E f \in FBs, a \in {"GL_DEPTH_ATTACHMENT", "GL_STENCIL_ATTACHMENT"} :
          Detach(f, a)
    \/ \E f \in FBs, size \in Sizes : DoSetColorAttachment(f, size)
    \/ \E f \in FBs, i \in SwapImages : DoAddColorAttachment(f, i)
    \/ \E t \in Resizable, size \in Sizes : TexImage(t, size)
    \/ \E f \in FBs : DoCheckForUpdatedResources(f)
    \/ \E f \in FBs, flags \in FlagInputs, clear \in ClearInputs,
          failAt \in 0..Cardinality(SwapImages) :
            PrepareForRender(f, flags, clear, failAt)
    \/ \E f \in FBs : DoCheckStatus(f)
    \/ \E f \in FBs : Destroy(f)

Spec == Init /\ [][Next]_vars

(***************************************************************************)
(* SpecShare: two off-screen Framebuffers that attach the same color and   *)
(* depth textures, build, rebuild after a resize, and are destroyed.       *)
(***************************************************************************)
ShareFlags == {FlagsOf(TRUE, TRUE, TRUE, TRUE, TRUE, TRUE)}
\* The shared textures are only made larger.
GrowSizes == {512}

InitShare ==
    /\ fb = [f \in FBs |-> NewFramebuffer(FALSE)]
    /\ tex = InitTextures
    /\ surf = [k \in Surfaces |-> NoSurface]
    /\ last = NoOp
    /\ ub = FALSE
    /\ sc = NoClear

NextShare ==
    \/ \E f \in FBs, t \in ColorInputs : AttachColor(f, t)
    \/ \E f \in FBs, t \in DepthInputs : AttachDepth(f, t)
    \/ \E t \in Resizable, size \in GrowSizes : TexImage(t, size)
    \/ \E f \in FBs, flags \in ShareFlags, clear \in ClearInputs :
          PrepareForRender(f, flags, clear, 0)
    \/ \E f \in FBs : Destroy(f)

SpecShare == InitShare /\ [][NextShare]_vars

(***************************************************************************)
(* SpecSwap: an off-screen Framebuffer and the window surface while the    *)
(* swap chain supplies the index of the next image.                        *)
(***************************************************************************)
\* The index GetActiveVkFramebuffer computes (line 613).
ActiveBufferIndex(F) == IF F.mIsSystem THEN F.nextImageIndex ELSE 0

\* Whether mFramebuffers[index] is an element of the vector.
InFramebuffers(F, index) == index + 1 <= Len(F.mFramebuffers)

\* Framebuffer::GetActiveVkFramebuffer; reading past the end of mFramebuffers
\* is undefined and has no value here.
GetActiveVkFramebuffer(F) ==
    IF InFramebuffers(F, ActiveBufferIndex(F))
    THEN F.mFramebuffers[ActiveBufferIndex(F) + 1]
    ELSE NoVkFramebuffer

\* EGLContext_t::SetNextImageIndex: the surface interface the Framebuffer reads
\* gets the index of the acquired swap image.
SetNextImageIndex(f, index) ==
    /\ Live(f)
    /\ fb[f].nextImageIndex # index
    /\ fb' = [fb EXCEPT ![f].nextImageIndex = index]
    /\ last' = [NoOp EXCEPT !.op = "SetNextImageIndex", !.f = f, !.index = index]
    /\ UNCHANGED <<tex, surf, ub, sc>>

\* Framebuffer::BeginVkRenderPass: the render pass begins on the per-buffer
\* object of the current buffer index.
BeginVkRenderPass(f) ==
    /\ Usable(f)
    /\ LET index == GetCurrentBufferIndex(fb[f])
       IN  /\ ub' = ~InFramebuffers(fb[f], index)
           /\ last' = [NoOp EXCEPT
                         !.op = "BeginVkRenderPass", !.f = f, !.index = index,
                         !.begun = IF InFramebuffers(fb[f], index)
                                   THEN fb[f].mFramebuffers[index + 1]
                                   ELSE NoVkFramebuffer]
    /\ UNCHANGED <<fb, tex, surf, sc>>

InitSwap ==
    /\ fb = [f \in FBs |-> NewFramebuffer(f \in SystemCandidates)]
    /\ tex = InitTextures
    /\ surf = [k \in Surfaces |-> NoSurface]
    /\ last = NoOp
    /\ ub = FALSE
    /\ sc = NoClear

NextSwap ==
    \/ \E f \in FBs, t \in ColorInputs : AttachColor(f, t)
    \/ \E f \in FBs, t \in DepthInputs : AttachDepth(f, t)
    \/ \E f \in FBs, i \in SwapImages : DoAddColorAttachment(f, i)
    \/ \E f \in FBs, index \in SwapImages : SetNextImageIndex(f, index)
    \/ \E f \in FBs, flags \in ShareFlags, clear \in ClearInputs,
          failAt \in 0..Cardinality(SwapImages) :
            PrepareForRender(f, flags, clear, failAt)
    \/ \E f \in FBs : BeginVkRenderPass(f)

SpecSwap == InitSwap /\ [][NextSwap]_vars

(***************************************************************************)
(* SpecFlags: CreateRenderPass of one Framebuffer under every combination  *)
(* of the six clear/write-enable flags.                                    *)
(***************************************************************************)
\* The clear values of two different clear calls.
ClearValues ==
    ClearInputs \cup
       {[rect |-> <<16, 16, 128, 128>>, color |-> "white", depth |-> 0, stencil |-> 255]}

NextFlags ==
    \/ \E f \in FBs, t \in ColorInputs : AttachColor(f, t)
    \/ \E f \in FBs, i \in SwapImages : DoAddColorAttachment(f, i)
    \/ \E f \in FBs, size \in Sizes : DoSetColorAttachment(f, size)
    \/ \E f \in FBs, flags \in AllFlags, clear \in ClearValues :
          PrepareForRender(f, flags, clear, 0)

SpecFlags == Init /\ [][NextFlags]_vars

(***************************************************************************)
(* SpecCache: one off-screen Framebuffer whose attachments are bound,      *)
(* switched between textures and renderbuffers and detached while the      *)
(* context memoizes and invalidates the resolved objects.                  *)
(***************************************************************************)
\* Framebuffer::CacheAttachement(Texture *bTexture, GLuint index)
CacheAttachementTexture(F, bTexture, index) ==
    [F EXCEPT
        !.mCacheColorTexture =
            IF /\ index = GetColorAttachmentName(F)
               /\ GetColorAttachmentType(F) = "GL_TEXTURE"
               /\ @ = NullTex
            THEN bTexture ELSE @,
        !.mCacheDepthTexture =
            IF /\ index = GetDepthAttachmentName(F)
               /\ GetDepthAttachmentType(F) = "GL_TEXTURE"
               /\ @ = NullTex
            THEN bTexture ELSE @,
        !.mCacheStencilTexture =
            IF /\ index = GetStencilAttachmentName(F)
               /\ GetStencilAttachmentType(F) = "GL_TEXTURE"
               /\ @ = NullTex
            THEN bTexture ELSE @]

\* Framebuffer::CacheAttachement(Renderbuffer *bRenderbuffer, GLuint index)
CacheAttachementRenderbuffer(F, bRenderbuffer, index) ==
    [F EXCEPT
        !.mCacheColorRenderbuffer =
            IF /\ index = GetColorAttachmentName(F)
               /\ GetColorAttachmentType(F) = "GL_RENDERBUFFER"
               /\ @ = NullTex
            THEN bRenderbuffer ELSE @,
        !.mCacheDepthRenderbuffer =
            IF /\ index = GetDepthAttachmentName(F)
               /\ GetDepthAttachmentType(F) = "GL_RENDERBUFFER"
               /\ @ = NullTex
            THEN bRenderbuffer ELSE @,
        !.mCacheStencilRenderbuffer =
            IF /\ index = GetStencilAttachmentName(F)
               /\ GetStencilAttachmentType(F) = "GL_RENDERBUFFER"
               /\ @ = NullTex
            THEN bRenderbuffer ELSE @]

\* The context resolved the object of a name in one of its arrays and hands
\* it to the Framebuffer.
DoCacheAttachement(f, t) ==
    /\ Live(f)
    /\ fb' = [fb EXCEPT ![f] =
                IF t[1] = "GL_TEXTURE"
                THEN CacheAttachementTexture(fb[f], t, t[2])
                ELSE CacheAttachementRenderbuffer(fb[f], t, t[2])]
    /\ last' = [NoOp EXCEPT !.op = "CacheAttachement", !.f = f, !.index = t[2]]
    /\ UNCHANGED <<tex, surf, ub, sc>>

DoCleanCachedAttachment(f, attachment) ==
    /\ Live(f)
    /\ fb' = [fb EXCEPT ![f] = CleanCachedAttachment(fb[f], attachment)]
    /\ last' = [NoOp EXCEPT !.op = "CleanCachedAttachment", !.f = f]
    /\ UNCHANGED <<tex, surf, ub, sc>>

\* What the client binds while the cache is watched: a name bound as texture
\* and as renderbuffer, and names bound to two channels at once.
CacheColorInputs == {TextureObj(1), RenderbufferObj(1), TextureObj(2)}
CacheDepthInputs == {TextureObj(2), RenderbufferObj(2), TextureObj(1)}
CacheStencilInputs == {RenderbufferObj(3), RenderbufferObj(2), TextureObj(3)}
CachedObjects ==
    {TextureObj(n) : n \in Names} \cup {RenderbufferObj(n) : n \in Names}
AttachmentPoints ==
    {"GL_COLOR_ATTACHMENT0", "GL_DEPTH_ATTACHMENT", "GL_STENCIL_ATTACHMENT"}

InitCache ==
    /\ fb = [f \in FBs |-> IF f \in SystemCandidates THEN NotConstructed
                           ELSE NewFramebuffer(FALSE)]
    /\ tex = InitTextures
    /\ surf = [k \in Surfaces |-> NoSurface]
    /\ last = NoOp
    /\ ub = FALSE
    /\ sc = NoClear

NextCache ==
    \/ \E f \in FBs, t \in CacheColorInputs : AttachColor(f, t)
    \/ \E f \in FBs, t \in CacheDepthInputs : AttachDepth(f, t)
    \/ \E f \in FBs, t \in CacheStencilInputs : AttachStencil(f, t)
    \/ \E f \in FBs, a \in {"GL_DEPTH_ATTACHMENT", "GL_STENCIL_ATTACHMENT"} :
          Detach(f, a)
    \/ \E f \in FBs, t \in CachedObjects : DoCacheAttachement(f, t)
    \/ \E f \in FBs, a \in AttachmentPoints : DoCleanCachedAttachment(f, a)

SpecCache == InitCache /\ [][NextCache]_vars

(***************************************************************************)
(* SpecWindow: an off-screen Framebuffer and the window surface, which is  *)
(* handed a combined surface of its own and rebuilds it.                   *)
(***************************************************************************)
\* The context gives the window surface's Framebuffer the combined surface of
\* the window (solely owned, never recorded on a texture, count 0).
ProvideWindowDepthStencil(f) ==
    /\ Usable(f)
    /\ fb[f].mIsSystem
    /\ fb[f].mDepthStencilTexture = NullSurf
    /\ FreeSurfaces(surf) # {}
    /\ LET k == NewSurface(surf)
       IN  /\ surf' = [surf EXCEPT ![k] =
                         [NoSurface EXCEPT !.st = "alive",
                                           !.w = fb[f].width, !.h = fb[f].height]]
           /\ fb' = [fb EXCEPT ![f].mDepthStencilTexture = k]
    /\ last' = [NoOp EXCEPT !.op = "ProvideWindowDepthStencil", !.f = f]
    /\ UNCHANGED <<tex, ub, sc>>

\* Framebuffer::CreateDepthStencilTexture called on the window surface by the
\* context (CreateRenderPass calls it for off-screen Framebuffers only).
DoCreateDepthStencilTexture(f) ==
    /\ Usable(f)
    /\ fb[f].mIsSystem
    /\ Allocates(fb[f], tex) => FreeSurfaces(surf) # {}
    /\ LET r == CreateDepthStencilTexture(fb[f], tex, surf)
       IN  /\ fb' = [fb EXCEPT ![f] = r.fb]
           /\ tex' = r.tex
           /\ surf' = r.surf
           /\ ub' = Dangling(surf, r.deref)
           /\ last' = [NoOp EXCEPT !.op = "CreateDepthStencilTexture", !.f = f,
                                   !.createdDS = r.created,
                                   !.released = r.released]
    /\ UNCHANGED sc

NextWindow ==
    \/ \E f \in FBs, t \in ColorInputs : AttachColor(f, t)
    \/ \E f \in FBs, t \in DepthInputs : AttachDepth(f, t)
    \/ \E f \in FBs, i \in SwapImages : DoAddColorAttachment(f, i)
    \/ \E f \in FBs, size \in GrowSizes : DoSetColorAttachment(f, size)
    \/ \E f \in FBs : ProvideWindowDepthStencil(f)
    \/ \E f \in FBs : DoCreateDepthStencilTexture(f)
    \/ \E f \in FBs, flags \in ShareFlags, clear \in ClearInputs :
          PrepareForRender(f, flags, clear, 0)
    \/ \E f \in FBs : Destroy(f)

SpecWindow == InitSwap /\ [][NextWindow]_vars

(***************************************************************************)
(* What the completeness properties say, read off the state: the bound     *)
(* channels of Framebuffer F and the texture behind each.                  *)
(***************************************************************************)
Channels == {"color", "depth", "stencil"}

ChannelType(F, ch) ==
    IF ch = "color" THEN GetColorAttachmentType(F)
    ELSE IF ch = "depth" THEN GetDepthAttachmentType(F)
    ELSE GetStencilAttachmentType(F)

ChannelTexture(F, ch) ==
    IF ch = "color" THEN GetColorAttachmentTexture(F)
    ELSE IF ch = "depth" THEN GetDepthAttachmentTexture(F)
    ELSE GetStencilAttachmentTexture(F)

ChannelRenderable(ch, fmt) ==
    IF ch = "color" THEN GlFormatIsColorRenderable(fmt)
    ELSE IF ch = "depth" THEN GlFormatIsDepthRenderable(fmt)
    ELSE GlFormatIsStencilRenderable(fmt)

BoundChannels(F) == {ch \in Channels : ChannelType(F, ch) # "GL_NONE"}

\* A bound channel that fails the second rule.
ChannelIsBad(F, ch) ==
    LET t == TexView(tex, surf)[ChannelTexture(F, ch)]
    IN  t.w <= 0 \/ t.h <= 0 \/ ~ChannelRenderable(ch, t.fmt)

\* Two bound channels of different size.
ChannelsDiffer(F, a, b) ==
    LET ta == TexView(tex, surf)[ChannelTexture(F, a)]
        tb == TexView(tex, surf)[ChannelTexture(F, b)]
    IN  ta.w # tb.w \/ ta.h # tb.h

SomeBad(F) == \E ch \in BoundChannels(F) : ChannelIsBad(F, ch)
SomeDiffer(F) == \E a \in BoundChannels(F), b \in BoundChannels(F) : ChannelsDiffer(F, a, b)

\* CheckStatus has just returned for a live Framebuffer.
Checked == last.op = "CheckStatus"
CheckedFb == fb[last.f]

(***************************************************************************)
(* C7: a Framebuffer whose color, depth and stencil attachment types are   *)
(* all GL_NONE is reported GL_FRAMEBUFFER_INCOMPLETE_MISSING_ATTACHMENT,   *)
(* and only such a Framebuffer is (the rule is decided first, on the types *)
(* alone, whatever the textures are).                                      *)
(***************************************************************************)
C7_MissingAttachment ==
    Checked =>
        ((BoundChannels(CheckedFb) = {})
            <=> last.status = "GL_FRAMEBUFFER_INCOMPLETE_MISSING_ATTACHMENT")

C7_Witness ==
    /\ Checked
    /\ BoundChannels(CheckedFb) = {}
    /\ last.status = "GL_FRAMEBUFFER_INCOMPLETE_MISSING_ATTACHMENT"

(***************************************************************************)
(* C8: when some bound attachment has width <= 0, height <= 0 or a format  *)
(* that is not renderable for its channel, CheckStatus answers             *)
(* GL_FRAMEBUFFER_INCOMPLETE_ATTACHMENT, also when sizes differ as well.   *)
(***************************************************************************)
C8_BadAttachmentWins ==
    (Checked /\ SomeBad(CheckedFb)) =>
        last.status = "GL_FRAMEBUFFER_INCOMPLETE_ATTACHMENT"

C8_Witness ==
    /\ Checked
    /\ SomeBad(CheckedFb)
    /\ SomeDiffer(CheckedFb)
    /\ last.status = "GL_FRAMEBUFFER_INCOMPLETE_ATTACHMENT"

(***************************************************************************)
(* C9, as claimed: whenever two bound attachments differ in width or       *)
(* height, CheckStatus answers GL_FRAMEBUFFER_INCOMPLETE_DIMENSIONS.       *)
(***************************************************************************)
C9_Original ==
    (Checked /\ SomeDiffer(CheckedFb)) =>
        last.status = "GL_FRAMEBUFFER_INCOMPLETE_DIMENSIONS"

(***************************************************************************)
(* C9, amended: whenever two bound attachments differ in width or height   *)
(* and every bound attachment passes the second rule (renderable format,   *)
(* width > 0, height > 0), CheckStatus answers                             *)
(* GL_FRAMEBUFFER_INCOMPLETE_DIMENSIONS; this for each of the three pairs. *)
(***************************************************************************)
C9_DimensionMismatch ==
    (Checked /\ SomeDiffer(CheckedFb) /\ ~SomeBad(CheckedFb)) =>
        last.status = "GL_FRAMEBUFFER_INCOMPLETE_DIMENSIONS"

C9_Witness ==
    /\ Checked
    /\ ChannelType(CheckedFb, "color") = "GL_NONE"
    /\ BoundChannels(CheckedFb) = {"depth", "stencil"}
    /\ ChannelsDiffer(CheckedFb, "depth", "stencil")
    /\ ~SomeBad(CheckedFb)
    /\ last.status = "GL_FRAMEBUFFER_INCOMPLETE_DIMENSIONS"

(***************************************************************************)
(* C10: every step that runs CheckStatus answers with the first failing    *)
(* rule in the order missing attachment, bad attachment, dimension         *)
(* mismatch, answers GL_FRAMEBUFFER_COMPLETE exactly when at least one     *)
(* channel is bound, no bound channel is bad and no two differ, and leaves *)
(* the Framebuffers, the textures and the surfaces as they were.           *)
(***************************************************************************)
StatusByRules(F) ==
    IF BoundChannels(F) = {} THEN "GL_FRAMEBUFFER_INCOMPLETE_MISSING_ATTACHMENT"
    ELSE IF SomeBad(F) THEN "GL_FRAMEBUFFER_INCOMPLETE_ATTACHMENT"
    ELSE IF SomeDiffer(F) THEN "GL_FRAMEBUFFER_INCOMPLETE_DIMENSIONS"
    ELSE "GL_FRAMEBUFFER_COMPLETE"

C10_CompleteIff ==
    [][last'.op = "CheckStatus" =>
        /\ last'.status = StatusByRules(fb[last'.f])
        /\ (last'.status = "GL_FRAMEBUFFER_COMPLETE"
              <=> /\ BoundChannels(fb[last'.f]) # {}
                  /\ ~SomeBad(fb[last'.f])
                  /\ ~SomeDiffer(fb[last'.f]))
        /\ UNCHANGED <<fb, tex, surf>>]_vars

C10_Witness ==
    /\ Checked
    /\ Cardinality(BoundChannels(CheckedFb)) = 3
    /\ last.status = "GL_FRAMEBUFFER_COMPLETE"

(***************************************************************************)
(* The masked stencil clear.                                               *)
(***************************************************************************)
ClearDone == sc.pc = "done"

RectPixels == {p \in ImagePixels : InRect(p, sc.clearRect)}

\* What a masked clear is to write: the clear value in the bits the mask selects,
\* the old value in the others.
MaskedClear(clearValue, mask, old) ==
    BitOr(BitAnd(clearValue, mask), BitAnd(old, 255 - mask))

(***************************************************************************)
(* C5, as claimed: after UpdateClearDepthStencilTexture every pixel of the *)
(* rectangle holds (clear & mask) | (old & ~mask): the clear value's bit   *)
(* where the mask selects, the old bit elsewhere.                          *)
(***************************************************************************)
C5_MaskedClear ==
    ClearDone =>
        \A p \in RectPixels :
            sc.image[p] = MaskedClear(sc.clearStencil, sc.stencilMaskFront, sc.image0[p])

(***************************************************************************)
(* C6: for the 8x8 rectangle with old stencil 0x0F, clear value 0xA5 and   *)
(* mask 0xF0 every pixel of the rectangle ends with 0xAF; and for every    *)
(* drawn call, each pixel of the rectangle is visited exactly once, no     *)
(* other pixel is visited, and the pixels outside keep their value.        *)
(***************************************************************************)
IsScenario8x8 ==
    /\ sc.clearRect.width = 8 /\ sc.clearRect.height = 8
    /\ sc.clearStencil = 165 /\ sc.stencilMaskFront = 240
    /\ \A p \in RectPixels : sc.image0[p] = 15

C6_Rectangle ==
    ClearDone =>
        /\ IsScenario8x8 => \A p \in RectPixels : sc.image[p] = 175
        /\ \A p \in ImagePixels :
              IF InRect(p, sc.clearRect)
              THEN sc.visits[p] = 1
              ELSE sc.visits[p] = 0 /\ sc.image[p] = sc.image0[p]

C6_Witness ==
    /\ ClearDone
    /\ IsScenario8x8
    /\ Cardinality(RectPixels) = 64
    /\ \A p \in RectPixels : sc.image[p] = 175

(***************************************************************************)
(* What the life-cycle properties say                                      *)
(***************************************************************************)
\* The surface a Framebuffer holds, or held when it was destroyed.
Held(f) ==
    IF fb[f].state = "live" THEN fb[f].mDepthStencilTexture ELSE fb[f].heldAtDeath

\* Two off-screen Framebuffers with the same depth attachment that built and
\* hold (or held to their end) the same surface.
Sharing(f, g) ==
    /\ f # g
    /\ fb[f].state # "none" /\ fb[g].state # "none"
    /\ ~fb[f].mIsSystem /\ ~fb[g].mIsSystem
    /\ fb[f].mAttachmentDepth.type # "GL_NONE"
    /\ fb[f].mAttachmentDepth = fb[g].mAttachmentDepth
    /\ Held(f) # NullSurf
    /\ Held(f) = Held(g)

\* C1: when two off-screen Framebuffers share the surface of one depth texture,
\* destroying one leaves the surface alive and held by the other, and
\* destroying both finalizes it exactly once.
C1_RoundTrip ==
    ~ub =>
        \A f \in FBs, g \in FBs :
            Sharing(f, g) =>
                /\ (fb[f].state = "dead" /\ fb[g].state = "live")
                      => /\ surf[Held(g)].st = "alive"
                         /\ surf[Held(g)].deletes = 0
                /\ (fb[f].state = "dead" /\ fb[g].state = "dead")
                      => surf[Held(g)].deletes = 1

\* C2: a surface is deleted only by a release whose decrement reaches zero:
\* whenever a step deletes a surface, its count before the step was one.
C2_DeleteOnlyAtZero ==
    [][\A k \in Surfaces :
          (surf[k].st = "alive" /\ surf'[k].st = "deleted") => surf[k].rc = 1]_vars

\* C3: of two CreateRenderPass calls in a row on one Framebuffer with the same
\* six flags, the second rebuilds nothing: the render pass and the per-buffer
\* framebuffer objects are the same objects.
C3_Idempotent ==
    [][(/\ last.op = "CreateRenderPass"
        /\ last'.op = "CreateRenderPass"
        /\ last'.f = last.f
        /\ last'.flags = last.flags)
          => /\ ~last'.rebuilt
             /\ fb'[last.f].mRenderPass.gen = fb[last.f].mRenderPass.gen
             /\ fb'[last.f].mFramebuffers = fb[last.f].mFramebuffers]_vars

\* C4: after a CreateRenderPass that found the size dirty on an off-screen
\* Framebuffer with a depth attachment, the depth-stencil surface has the
\* Framebuffer's size and is the one the render pass was built with.
C4_ResizeRebuildsSurface ==
    (/\ ~ub
     /\ last.op = "CreateRenderPass"
     /\ last.sizeUpdatedIn
     /\ ~fb[last.f].mIsSystem
     /\ fb[last.f].mAttachmentDepth.type # "GL_NONE")
        => /\ fb[last.f].mDepthStencilTexture # NullSurf
           /\ surf[fb[last.f].mDepthStencilTexture].w = fb[last.f].width
           /\ surf[fb[last.f].mDepthStencilTexture].h = fb[last.f].height
           /\ fb[last.f].mRenderPass.ds = fb[last.f].mDepthStencilTexture
           /\ ~fb[last.f].mSizeUpdated

\* C11: after a rebuild in which Framebuffer::Create succeeded there is one
\* per-buffer object for an off-screen Framebuffer and one per swap image for
\* the window surface, and each of them was made by this rebuild.
C11_BufferCount ==
    (/\ ~ub
     /\ last.op = "CreateRenderPass"
     /\ last.rebuilt
     /\ last.ok)
        => /\ Len(fb[last.f].mFramebuffers) =
                 (IF fb[last.f].mIsSystem THEN Cardinality(SwapImages) ELSE 1)
           /\ \A i \in 1..Len(fb[last.f].mFramebuffers) :
                 fb[last.f].mFramebuffers[i].id = <<fb[last.f].mRenderPass.gen, i>>

\* C12: the buffer index is the supplied next-image index on the window surface
\* and 0 off-screen; supplying a new index rebuilds nothing, and
\* BeginVkRenderPass and GetActiveVkFramebuffer take the per-buffer object of
\* that index.
C12_BufferIndex ==
    [][/\ last'.op = "SetNextImageIndex"
          => /\ GetCurrentBufferIndex(fb'[last'.f]) =
                   (IF fb'[last'.f].mIsSystem THEN last'.index ELSE 0)
             /\ fb'[last'.f].mRenderPass = fb[last'.f].mRenderPass
             /\ fb'[last'.f].mFramebuffers = fb[last'.f].mFramebuffers
       /\ (last'.op = "BeginVkRenderPass" /\ ~ub')
          => /\ last'.index =
                   (IF fb[last'.f].mIsSystem THEN fb[last'.f].nextImageIndex ELSE 0)
             /\ last'.begun = fb[last'.f].mFramebuffers[last'.index + 1]
             /\ last'.begun.id[2] = last'.index + 1
             /\ GetActiveVkFramebuffer(fb[last'.f]) = last'.begun]_vars

\* The render pass of the window surface begins on the object of swap image 2.
C12_Witness ==
    /\ ~ub
    /\ last.op = "BeginVkRenderPass"
    /\ fb[last.f].mIsSystem
    /\ fb[last.f].nextImageIndex = 2
    /\ last.begun.id[2] = 3

\* C13: after a rebuild in which the creation of a per-buffer object failed
\* (Framebuffer::Create returned false), the Framebuffer holds no per-buffer
\* object.
C13_FailedCreateLeavesNone ==
    (/\ last.op = "CreateRenderPass"
     /\ last.rebuilt
     /\ ~last.ok)
        => fb[last.f].mFramebuffers = << >>

C15_RebuildIff ==
    [][last'.op = "CreateRenderPass"
          => /\ (fb'[last'.f].mRenderPass.gen # fb[last'.f].mRenderPass.gen)
                   <=> \/ fb[last'.f].mUpdated
                       \/ fb[last'.f].mSizeUpdated
                       \/ fb[last'.f].mRenderPass.flags # last'.flags
             /\ (fb'[last'.f].mRenderPass.gen # fb[last'.f].mRenderPass.gen)
                   => /\ ~fb'[last'.f].mUpdated
                      /\ fb'[last'.f].mRenderPass.flags = last'.flags
                      /\ \A i \in 1..Len(fb'[last'.f].mFramebuffers) :
                            fb'[last'.f].mFramebuffers[i].renderPass
                                = fb'[last'.f].mRenderPass.gen
             /\ (fb'[last'.f].mRenderPass.gen = fb[last'.f].mRenderPass.gen)
                   => /\ fb'[last'.f].mFramebuffers = fb[last'.f].mFramebuffers
                      /\ fb'[last'.f].mRenderPass.flags = fb[last'.f].mRenderPass.flags
                      /\ fb'[last'.f].mUpdated = fb[last'.f].mUpdated]_vars

\* A rebuild that only a changed flag asked for.
C15_Witness ==
    /\ last.op = "CreateRenderPass"
    /\ last.rebuilt
    /\ ~last.updatedIn
    /\ ~last.sizeUpdatedIn
    /\ fb[last.f].mRenderPass.gen = 2
    /\ fb[last.f].mRenderPass.flags = last.flags

\* C16: after CreateRenderPass on an off-screen Framebuffer with a depth or a
\* stencil attachment, the combined surface the Framebuffer refers to has the
\* Framebuffer's width and height.
C16_SurfaceHasFramebufferSize ==
    (/\ ~ub
     /\ last.op = "CreateRenderPass"
     /\ ~fb[last.f].mIsSystem
     /\ \/ fb[last.f].mAttachmentDepth.type # "GL_NONE"
        \/ fb[last.f].mAttachmentStencil.type # "GL_NONE"
     /\ fb[last.f].mDepthStencilTexture # NullSurf)
        => /\ surf[fb[last.f].mDepthStencilTexture].w = fb[last.f].width
           /\ surf[fb[last.f].mDepthStencilTexture].h = fb[last.f].height

\* The array object a channel's bound name and type stand for.
DirectLookup(F, ch) ==
    LET type == ChannelType(F, ch)
        name == IF ch = "color" THEN GetColorAttachmentName(F)
                ELSE IF ch = "depth" THEN GetDepthAttachmentName(F)
                ELSE GetStencilAttachmentName(F)
    IN  IF name = 0 THEN NullTex
        ELSE IF type = "GL_TEXTURE" THEN TextureObj(name)
        ELSE IF type = "GL_RENDERBUFFER" THEN RenderbufferObj(name)
        ELSE NullTex

CachedTexture(F, ch) ==
    IF ch = "color" THEN F.mCacheColorTexture
    ELSE IF ch = "depth" THEN F.mCacheDepthTexture
    ELSE F.mCacheStencilTexture

CachedRenderbuffer(F, ch) ==
    IF ch = "color" THEN F.mCacheColorRenderbuffer
    ELSE IF ch = "depth" THEN F.mCacheDepthRenderbuffer
    ELSE F.mCacheStencilRenderbuffer

\* C17: on every channel the texture resolved through the cache is the one
\* a direct lookup of the bound name gives, and a cache entry that is set is
\* the object bound to its channel.
C17_CacheCoherent ==
    \A f \in FBs, ch \in Channels :
        fb[f].state = "live" =>
            /\ ChannelTexture(fb[f], ch) = DirectLookup(fb[f], ch)
            /\ CachedTexture(fb[f], ch) # NullTex
                  => /\ ChannelType(fb[f], ch) = "GL_TEXTURE"
                     /\ CachedTexture(fb[f], ch) = DirectLookup(fb[f], ch)
            /\ CachedRenderbuffer(fb[f], ch) # NullTex
                  => /\ ChannelType(fb[f], ch) = "GL_RENDERBUFFER"
                     /\ CachedRenderbuffer(fb[f], ch) = DirectLookup(fb[f], ch)

\* Depth and stencil are bound to one renderbuffer, both are cached, and the
\* color channel is cached as a texture.
C17_Witness ==
    \E f \in FBs :
        /\ fb[f].state = "live"
        /\ fb[f].mCacheDepthRenderbuffer = RenderbufferObj(2)
        /\ fb[f].mCacheStencilRenderbuffer = RenderbufferObj(2)
        /\ fb[f].mCacheColorTexture # NullTex
        /\ last.op = "CacheAttachement"

\* CreateDepthStencilTexture ran in the step: a rebuild of an off-screen
\* Framebuffer that found the size dirty and has a depth or stencil texture.
SharerRan(f) ==
    /\ last'.op = "CreateRenderPass"
    /\ last'.f = f
    /\ last'.rebuilt
    /\ last'.sizeUpdatedIn
    /\ ~fb[f].mIsSystem
    /\ ~ub'
    /\ \/ GetDepthAttachmentTexture(fb[f]) # NullTex
       \/ GetStencilAttachmentTexture(fb[f]) # NullTex

\* C18: if the depth attachment's texture has a recorded surface the
\* Framebuffer adopts it, its count grows by one and nothing is allocated or
\* deleted; otherwise a surface is allocated and, if there is a depth
\* attachment texture, recorded on it with its count incremented by one.
C18_SharingSteps ==
    [][\A f \in FBs :
          SharerRan(f) =>
             LET d == GetDepthAttachmentTexture(fb[f])
                 k == fb'[f].mDepthStencilTexture
             IN  IF d # NullTex /\ tex[d].ds # NullSurf
                 THEN /\ k = tex[d].ds
                      /\ surf' = [surf EXCEPT ![k].rc = @ + 1]
                      /\ tex' = tex
                 ELSE /\ k # NullSurf
                      /\ surf[k].st = "free"
                      /\ surf'[k].st = "alive"
                      /\ IF d # NullTex
                         THEN /\ tex' = [tex EXCEPT ![d].ds = k]
                              /\ surf'[k].rc = 1
                         ELSE /\ tex' = tex
                              /\ surf'[k].rc = 0]_vars

\* A Framebuffer took over the surface recorded on its depth attachment.
C18_Witness ==
    /\ ~ub
    /\ last.op = "CreateRenderPass"
    /\ last.sizeUpdatedIn
    /\ ~last.createdDS
    /\ ~fb[last.f].mIsSystem
    /\ fb[last.f].mDepthStencilTexture # NullSurf
    /\ surf[fb[last.f].mDepthStencilTexture].rc = 2

\* The Framebuffers other than f that hold surface k.
OtherHolders(f, k) ==
    {g \in FBs \ {f} : Live(g) /\ fb[g].mDepthStencilTexture = k}

\* C19: the destructor of an off-screen Framebuffer that holds a surface
\* decrements its count and finalizes it exactly when no other Framebuffer
\* holds it, a stencil-only Framebuffer's surface included, and the count
\* never goes below zero.
C19_Teardown ==
    [][\A f \in FBs :
          LET k == fb[f].mDepthStencilTexture
          IN  (/\ last'.op = "Destroy"
               /\ last'.f = f
               /\ ~fb[f].mIsSystem
               /\ k # NullSurf
               /\ surf[k].st = "alive")
              => /\ surf'[k].rc >= 0
                 /\ (surf'[k].st = "deleted") <=> (OtherHolders(f, k) = {})
                 /\ surf'[k].st = "alive" => surf'[k].rc = surf[k].rc - 1]_vars

\* The surfaces recorded on some texture.
RecordedSurfaces == {tex[t].ds : t \in TexObjs} \ {NullSurf}

\* C20: the combined surface of a window surface's Framebuffer is never
\* shared: its CreateDepthStencilTexture adopts no recorded surface, records
\* its surface on no texture and changes no reference count, and its
\* destructor leaves every surface as it is.
C20_WindowSurfaceNotShared ==
    [][\A f \in FBs :
          (fb[f].mIsSystem /\ last'.f = f /\ ~ub')
          => /\ last'.op = "CreateDepthStencilTexture"
                => /\ tex' = tex
                   /\ \A k \in Surfaces : surf'[k].rc = surf[k].rc
                   /\ fb'[f].mDepthStencilTexture \notin RecordedSurfaces
                   /\ \A g \in FBs \ {f} :
                         Live(g) /\ fb[g].mDepthStencilTexture # NullSurf
                         => fb'[f].mDepthStencilTexture # fb[g].mDepthStencilTexture
             /\ last'.op = "Destroy" => surf' = surf]_vars

\* The window surface replaced its combined surface while the off-screen
\* Framebuffer holds a surface recorded on its depth attachment.
C20_Witness ==
    /\ ~ub
    /\ last.op = "CreateDepthStencilTexture"
    /\ last.createdDS
    /\ fb[last.f].mIsSystem
    /\ fb[last.f].mDepthStencilTexture # NullSurf
    /\ \E g \in FBs :
          /\ ~fb[g].mIsSystem
          /\ fb[g].mDepthStencilTexture \in RecordedSurfaces

\* Whether a per-buffer object of F has a depth-stencil view.
HasDepthStencilView(F) ==
    \E i \in 1..Len(F.mFramebuffers) :
       \E j \in 1..Len(F.mFramebuffers[i].views) :
          F.mFramebuffers[i].views[j] \in {DSObj(k) : k \in Surfaces}

\* C21: a render pass created for a Framebuffer with neither a depth nor a
\* stencil attachment bound gets the depth-stencil format
\* VK_FORMAT_UNDEFINED, and the per-buffer image-view lists have no
\* depth-stencil view.
C21_NoAttachmentNoDepthStencil ==
    \A f \in FBs :
       (/\ last.op = "CreateRenderPass"
        /\ last.f = f
        /\ last.rebuilt
        /\ ~ub
        /\ fb[f].mAttachmentDepth.type = "GL_NONE"
        /\ fb[f].mAttachmentStencil.type = "GL_NONE")
       => /\ fb[f].mRenderPass.dsFormat = "VK_FORMAT_UNDEFINED"
          /\ ~HasDepthStencilView(fb[f])

\* C22: after a rebuild in which Create failed, the Framebuffer is still
\* dirty: a CreateRenderPass with the same flags would rebuild again.
C22_FailedRebuildStaysDirty ==
    \A f \in FBs :
       (/\ last.op = "CreateRenderPass"
        /\ last.f = f
        /\ last.rebuilt
        /\ ~last.ok
        /\ ~ub)
       => NeedsRebuild(fb[f], last.flags)

\* C23: every CreateRenderPass leaves the render pass's clear rectangle,
\* clear color and clear depth/stencil values equal to its arguments, and a
\* call that only updates them keeps the render pass and the per-buffer
\* objects.
C23_ClearValuesAlwaysSet ==
    [][\A f \in FBs :
          (last'.op = "CreateRenderPass" /\ last'.f = f)
          => /\ fb'[f].mRenderPass.clear = last'.clear
             /\ ~last'.rebuilt
                => /\ fb'[f].mRenderPass.gen = fb[f].mRenderPass.gen
                   /\ fb'[f].mFramebuffers = fb[f].mFramebuffers
                   /\ fb'[f] = [fb[f] EXCEPT !.mRenderPass.clear = last'.clear]]_vars

\* A CreateRenderPass that did not rebuild recorded the second clear call's
\* values on a render pass that has its per-buffer object.
C23_Witness ==
    /\ last.op = "CreateRenderPass"
    /\ ~last.rebuilt
    /\ last.clear \notin ClearInputs
    /\ fb[last.f].mRenderPass.clear = last.clear
    /\ fb[last.f].mRenderPass.gen = MaxBuilds
    /\ Len(fb[last.f].mFramebuffers) > 0

\* The list the image views of slot i are to be: the color attachment's view
\* if there is one, then the combined surface's view if there is one.
ExpectedViews(F, i) ==
    LET c == GetColorAttachmentTextureAt(F, i)
        k == F.mDepthStencilTexture
    IN  IF c # NullTex /\ k # NullSurf THEN <<c, DSObj(k)>>
        ELSE IF c # NullTex THEN <<c>>
        ELSE IF k # NullSurf THEN <<DSObj(k)>>
        ELSE << >>

\* C24: every per-buffer object built by Create has the image views [color
\* attachment i if present, combined depth-stencil surface if present], color
\* first, and is created against the current render pass with the
\* Framebuffer's current width and height.
C24_ImageViewList ==
    \A f \in FBs :
       (/\ last.op = "CreateRenderPass"
        /\ last.f = f
        /\ last.rebuilt
        /\ ~ub)
       => \A i \in 1..Len(fb[f].mFramebuffers) :
             /\ fb[f].mFramebuffers[i].views = ExpectedViews(fb[f], i)
             /\ fb[f].mFramebuffers[i].renderPass = fb[f].mRenderPass.gen
             /\ fb[f].mFramebuffers[i].w = fb[f].width
             /\ fb[f].mFramebuffers[i].h = fb[f].height

\* A rebuild made a per-buffer object with a color view and the view of the
\* combined surface.
C24_Witness ==
    /\ last.op = "CreateRenderPass"
    /\ last.rebuilt
    /\ ~ub
    /\ Len(fb[last.f].mFramebuffers) = 1
    /\ Len(fb[last.f].mFramebuffers[1].views) = 2

\* C25: when BeginVkRenderPass runs on a Framebuffer for which a
\* CreateRenderPass has returned, the buffer index is smaller than the number
\* of per-buffer objects (an off-screen Framebuffer has one, also with depth
\* and/or stencil attachments only).
C25_IndexInRange ==
    \A f \in FBs :
       (/\ last.op = "BeginVkRenderPass"
        /\ last.f = f
        /\ fb[f].mRenderPass.gen > 0)
       => last.index < Len(fb[f].mFramebuffers)

\* The live off-screen Framebuffers whose mDepthStencilTexture is surface k.
Holders(k) ==
    {f \in FBs : /\ fb[f].state = "live"
                 /\ ~fb[f].mIsSystem
                 /\ fb[f].mDepthStencilTexture = k}

\* C26: the reference count of a combined surface is the number of live
\* off-screen Framebuffers that hold it.
C26_CountIsHolders ==
    \A k \in Surfaces :
       (surf[k].st = "alive" /\ ~ub) => surf[k].rc = Cardinality(Holders(k))

\* C27: no live Framebuffer holds a deleted combined surface and no texture
\* has a deleted surface recorded on it.
C27_NoDanglingSurface ==
    /\ \A f \in FBs :
          (fb[f].state = "live" /\ fb[f].mDepthStencilTexture # NullSurf)
          => surf[fb[f].mDepthStencilTexture].st # "deleted"
    /\ \A t \in TexObjs :
          tex[t].ds # NullSurf => surf[tex[t].ds].st # "deleted"

\* The steps that run AddColorAttachment, SetColorAttachment (on its own or
\* for a color attachment being bound) or CheckForUpdatedResources.
AttachmentSideOps ==
    {"AddColorAttachment", "SetColorAttachment", "AttachColor",
     "CheckForUpdatedResources"}

\* C28: AddColorAttachment, SetColorAttachment and CheckForUpdatedResources
\* never change mUpdated or mSizeUpdated from true to false.
C28_DirtyFlagsKept ==
    [][\A f \in FBs :
          (last'.op \in AttachmentSideOps /\ last'.f = f)
          => /\ fb[f].mUpdated => fb'[f].mUpdated
             /\ fb[f].mSizeUpdated => fb'[f].mSizeUpdated]_vars

============================================================================
